---- MODULE Spec2Model ----
(***************************************************************************)
(* Media-job orchestration of the streaming platform.                      *)
(*                                                                         *)
(* Playout service (playout/src/index.ts, kept as src/unnamed/part_003):   *)
(* one async startPlayout invocation ("task") per playout:start message,   *)
(* the activePlayouts map, and one ffmpeg child process per item played.   *)
(* The service is a single Node.js event loop: a handler runs without      *)
(* interruption from one await to the next, so every action below is the   *)
(* code between two suspension points.  A store query takes effect at the  *)
(* step that completes its await.                                          *)
(***************************************************************************)
EXTENDS Integers, Sequences, FiniteSets, TLC

\* ---------------------------------------------------------------- bounds
MaxLen      == 2   \* longest playlist
MaxRequests == 2   \* API requests (start, stop, skip, playlist edit) made in a run
MaxRestreamRequests == 2   \* requests (stream start/stop, restream start/stop) made in a run
MaxFanouts == 1   \* stream:start messages published in a run of the fan-out alone

Channels == {"c1"}
Items    == 1..MaxLen
Tasks    == 1..(MaxRequests + 1)

\* Exit codes a child process reports to the 'close' handler: 0 (finished),
\* 255 (ffmpeg interrupted by a signal it handles), 1 (any other failure),
\* -1 (code === null: ended by a signal).
ExitCodes == {0, 255, 1, -1}

\* Process references held in activePlayouts entries: NoProc is the initial
\* null, DeadProc a ChildProcess object whose process has exited, t \in Tasks
\* the running child of task t.
NoProc   == 0
DeadProc == -1

\* Rows of playlist_items joined with ready vod_files, ordered by position.
Playlists ==
  {p \in UNION {[1..n -> Items] : n \in 0..MaxLen} :
      \A i, j \in DOMAIN p : i # j => p[i] # p[j]}

VARIABLES
  dbPlaylist,     \* store: playlist rows of each channel (ready items, by position)
  dbLoop,         \* store: linear_channels.loop_playlist
  dbStatus,       \* store: linear_channels.status
  dbIndex,        \* store: linear_channels.current_item_index
  busP,           \* messages published to the playout service, in order
  tasks,          \* startPlayout invocations of each channel
  activePlayouts, \* the map: channel -> entry object (named by the task that made it), 0 = absent
  entries,        \* entry objects: process, playlist (currentItem and loop are never read)
  procs,          \* child process of each task: "none", "live", "term" (SIGTERM sent)
  nStart, nStop, nSkip, nEdit,   \* history: requests made per channel
  earlyStop,      \* history: a stop was handled while a start had not spawned yet
  \* restream service
  rdStatus,        \* store: restream_destinations.status ("absent": the stream has no such row)
  rdError,         \* store: restream_destinations.error_message
  enabled,         \* store: social_accounts.is_active of the destination's account
  busR,            \* messages published to the restream service, in order
  rtasks,          \* handler invocations of the restream service
  activeProcesses, \* the map: destination -> child (its number), 0 = absent
  rprocs,          \* children spawned per destination, numbered in spawn order
  pendingClose,    \* status writes issued by close handlers and not yet applied
  nStreamStart, nStreamStop, nRestreamStart, nRestreamStop,  \* history: requests made
  lateStop,        \* history: a stop was requested for a destination whose child had closed
  rBudget,         \* the number of requests this run may make
  \* both services
  pBudget,         \* the number of playout requests this run may make
  phase,           \* each service process: "boot", "up", "stopping" (SIGTERM handler awaiting), "exited"
  spawnFailed,     \* history: a spawn of ffmpeg failed for the channel
  stopInFlight,    \* history: a stop was handled for a destination whose start had not spawned yet
  srs,             \* the media server: hooks (its linear publish/unpublish callbacks are
                   \* configured), calls (the callbacks per channel it has still to make)
  \* transcoder service
  vod,             \* per VOD: status (store: vod_files.status), pc (handleTranscode's
                   \* position), made (files produced), ready (vod:ready was published)
  \* API service
  viewers          \* the key stream:viewers:<streamKey>: exists, count (its value),
                   \* setting (decrementViewers calls between DECR and SET), and
                   \* history: calls, joins, leaves, stray, returned

playoutVars == <<dbPlaylist, dbLoop, dbStatus, dbIndex, busP, tasks, activePlayouts,
                 entries, procs, nStart, nStop, nSkip, nEdit,
                 earlyStop>>

restreamVars == <<rdStatus, rdError, enabled, busR, rtasks, activeProcesses, rprocs,
                  pendingClose, nStreamStart, nStreamStop, nRestreamStart,
                  nRestreamStop, lateStop, rBudget>>

serviceVars == <<pBudget, phase, spawnFailed, stopInFlight, srs, vod, viewers>>

vars == <<playoutVars, restreamVars, serviceVars>>

Services == {"playout", "restream"}

\* The service's main() has subscribed and process.exit has not been called:
\* its handlers and continuations run.
Serving(s) == phase[s] \in {"up", "stopping"}

\* redis.publish to the channels service s subscribes to: pub/sub keeps no
\* message for a service that is not subscribed.
Deliver(s, bus, msg) == IF Serving(s) THEN Append(bus, msg) ELSE bus

\* The media server notes that a publisher of channel c's stream connected
\* ("publish") or went away ("unpublish"); it calls the API hook later.
Notify(c, ev) == IF srs.hooks THEN [srs EXCEPT !.calls[c] = Append(@, ev)] ELSE srs

\* ------------------------------------------------------------ playout
IdleTask == [pc |-> "idle", loop |-> FALSE, idx |-> 0, info |-> 0,
             dup |-> FALSE, spawned |-> FALSE]

NoEntry == [process |-> NoProc, playlist |-> <<>>]

\* getPlaylist: the rows the query returns when it completes.
getPlaylist(c) == dbPlaylist[c]

\* The synchronous loop is stuck in "currentIndex = 0; continue" (empty
\* snapshot, loop set): the event loop never gets control back.
Hung == \E c \in Channels, t \in Tasks : tasks[c][t].pc = "spin"

\* The lowest task slot not yet used by a startPlayout invocation.
NextTask(c) == CHOOSE t \in Tasks : /\ tasks[c][t].pc = "idle"
                                    /\ \A u \in Tasks : u < t => tasks[c][u].pc # "idle"

\* The head of the while loop up to the await of the index write, or the
\* cleanup after the loop up to the await of the status write.  ap is the
\* channel's activePlayouts value and ent its entry objects at that moment.
LoopHead(ap, ent, loop, idx, running) ==
  IF ~running \/ ap = 0
  THEN [pc |-> "cleanupWrite", idx |-> idx, info |-> 0, ap |-> 0]
  ELSE IF idx < Len(ent[ap].playlist)
  THEN [pc |-> "idxWrite", idx |-> idx, info |-> ap, ap |-> ap]
  ELSE IF ~loop
  THEN [pc |-> "cleanupWrite", idx |-> idx, info |-> 0, ap |-> 0]
  ELSE IF Len(ent[ap].playlist) > 0
  THEN [pc |-> "idxWrite", idx |-> 0, info |-> ap, ap |-> ap]
  ELSE [pc |-> "spin", idx |-> 0, info |-> ap, ap |-> ap]

\* The task's locals after LoopHead returned h.
AtHead(task, h) == [task EXCEPT !.pc = h.pc, !.idx = h.idx, !.info = h.info]

\* Requests made so far, over all channels.
Requests ==
  LET RECURSIVE Sum(_)
      Sum(S) == IF S = {} THEN 0
                ELSE LET c == CHOOSE x \in S : TRUE
                     IN nStart[c] + nStop[c] + nSkip[c] + nEdit[c] + Sum(S \ {c})
  IN Sum(Channels)

\* POST /linear/:id/start: the route marks the channel running and publishes.
ApiStart(c) ==
  /\ Requests < pBudget
  /\ Len(dbPlaylist[c]) > 0
  /\ dbStatus' = [dbStatus EXCEPT ![c] = "running"]
  /\ busP' = Deliver("playout", busP, [type |-> "start", ch |-> c, loop |-> dbLoop[c]])
  /\ nStart' = [nStart EXCEPT ![c] = @ + 1]
  /\ UNCHANGED <<dbPlaylist, dbLoop, dbIndex, tasks, activePlayouts, entries, procs,
                 nStop, nSkip, nEdit, earlyStop,
                 restreamVars, serviceVars>>

\* POST /linear/:id/stop: the route marks the channel stopped and publishes.
ApiStop(c) ==
  /\ Requests < pBudget
  /\ dbStatus' = [dbStatus EXCEPT ![c] = "stopped"]
  /\ busP' = Deliver("playout", busP, [type |-> "stop", ch |-> c, loop |-> FALSE])
  /\ nStop' = [nStop EXCEPT ![c] = @ + 1]
  /\ UNCHANGED <<dbPlaylist, dbLoop, dbIndex, tasks, activePlayouts, entries, procs,
                 nStart, nSkip, nEdit, earlyStop,
                 restreamVars, serviceVars>>

\* POST /linear/:id/skip: the route only publishes.
ApiSkip(c) ==
  /\ Requests < pBudget
  /\ busP' = Deliver("playout", busP, [type |-> "skip", ch |-> c, loop |-> FALSE])
  /\ nSkip' = [nSkip EXCEPT ![c] = @ + 1]
  /\ UNCHANGED <<dbPlaylist, dbLoop, dbStatus, dbIndex, tasks, activePlayouts, entries,
                 procs, nStart, nStop, nEdit, earlyStop,
                 restreamVars, serviceVars>>

\* What one playlist route makes of playlist p: POST appends an item at
\* MAX(position) + 1, DELETE removes one row, PUT reorder exchanges positions.
Edits(p) ==
  {Append(p, i) : i \in {j \in Items : Len(p) < MaxLen /\ \A k \in DOMAIN p : p[k] # j}}
  \cup {SubSeq(p, 1, k - 1) \o SubSeq(p, k + 1, Len(p)) : k \in DOMAIN p}
  \cup {[p EXCEPT ![k] = p[k + 1], ![k + 1] = p[k]] : k \in 1..(Len(p) - 1)}

\* A playlist route (add, remove, reorder) changes the channel's rows.
EditPlaylist(c, p) ==
  /\ Requests < pBudget
  /\ p \in Edits(dbPlaylist[c])
  /\ dbPlaylist' = [dbPlaylist EXCEPT ![c] = p]
  /\ nEdit' = [nEdit EXCEPT ![c] = @ + 1]
  /\ UNCHANGED <<dbLoop, dbStatus, dbIndex, busP, tasks, activePlayouts, entries, procs,
                 nStart, nStop, nSkip, earlyStop,
                 restreamVars, serviceVars>>

\* startPlayout up to "await getPlaylist(channelId)".
startPlayout(c) ==
  /\ Serving("playout") /\ ~Hung
  /\ busP # <<>> /\ Head(busP).type = "start" /\ Head(busP).ch = c
  /\ LET t == NextTask(c) IN
       tasks' = [tasks EXCEPT ![c][t] =
                   [IdleTask EXCEPT !.pc = "load", !.loop = Head(busP).loop,
                                    !.dup = (activePlayouts[c] # 0)]]
  /\ busP' = Tail(busP)
  /\ UNCHANGED <<dbPlaylist, dbLoop, dbStatus, dbIndex, activePlayouts, entries, procs,
                 nStart, nStop, nSkip, nEdit, earlyStop,
                 restreamVars, serviceVars>>

\* Mutant: the empty-playlist test is missing.
IsEmpty_Never(playlist) == FALSE

\* "playlist.length === 0": the snapshot holds no ready item.
IsEmpty(playlist) == Len(playlist) = 0

\* The playlist arrives: empty -> await the status write; else the entry is
\* set and the loop runs to the await of the first index write.
LoadDone(c, t) ==
  /\ Serving("playout") /\ ~Hung
  /\ tasks[c][t].pc = "load"
  /\ LET playlist == getPlaylist(c) IN
     IF IsEmpty(playlist)
     THEN /\ tasks' = [tasks EXCEPT ![c][t].pc = "emptyWrite"]
          /\ UNCHANGED <<activePlayouts, entries,
                 restreamVars, serviceVars>>
     ELSE LET ent == [entries[c] EXCEPT ![t] =
                        [process |-> NoProc, playlist |-> playlist]]
              h   == LoopHead(t, ent, tasks[c][t].loop, 0, TRUE)
          IN /\ entries' = [entries EXCEPT ![c] = ent]
             /\ activePlayouts' = [activePlayouts EXCEPT ![c] = h.ap]
             /\ tasks' = [tasks EXCEPT ![c][t] = AtHead(@, h)]
  /\ UNCHANGED <<dbPlaylist, dbLoop, dbStatus, dbIndex, busP, procs, nStart, nStop,
                 nSkip, nEdit, earlyStop,
                 restreamVars, serviceVars>>

\* The status write of the empty-playlist return completes.
EmptyWriteDone(c, t) ==
  /\ Serving("playout") /\ ~Hung
  /\ tasks[c][t].pc = "emptyWrite"
  /\ dbStatus' = [dbStatus EXCEPT ![c] = "stopped"]
  /\ tasks' = [tasks EXCEPT ![c][t].pc = "done"]
  /\ UNCHANGED <<dbPlaylist, dbLoop, dbIndex, busP, activePlayouts, entries, procs,
                 nStart, nStop, nSkip, nEdit, earlyStop,
                 restreamVars, serviceVars>>

\* Mutant: the handler looks the entry up but never signals its child.
Kill_Nothing(pr, ref) == pr

\* process.kill('SIGTERM') on the referenced ChildProcess: only a running
\* child is signalled.
Kill(pr, ref) ==
  IF ref \in Tasks /\ pr[ref] = "live" THEN [pr EXCEPT ![ref] = "term"] ELSE pr

\* Mutant: the UPDATE of current_item_index is lost.
IndexWrite_Lost(db, c, idx) == db

\* UPDATE linear_channels SET current_item_index = $1 WHERE id = $2.
IndexWrite(db, c, idx) == [db EXCEPT ![c] = idx]

\* The index write completes, then playItem runs to its await: ffmpeg is
\* spawned and stored in whatever entry the map holds for the channel now.
IdxWriteDone(c, t) ==
  /\ Serving("playout") /\ ~Hung
  /\ tasks[c][t].pc = "idxWrite"
  /\ dbIndex' = IndexWrite(dbIndex, c, tasks[c][t].idx)
  /\ procs' = [procs EXCEPT ![c][t] = "live"]
  /\ entries' = IF activePlayouts[c] # 0
                THEN [entries EXCEPT ![c][activePlayouts[c]].process = t]
                ELSE entries
  /\ tasks' = [tasks EXCEPT ![c][t].pc = "play", ![c][t].spawned = TRUE]
  /\ srs' = Notify(c, "publish")
  /\ UNCHANGED <<dbPlaylist, dbLoop, dbStatus, busP, activePlayouts, nStart, nStop,
                 nSkip, nEdit, earlyStop,
                 restreamVars, pBudget, phase, spawnFailed, stopInFlight, vod, viewers>>

\* playItem's close handler: these codes resolve, every other one rejects.
Resolves(code) == code = 0 \/ code = 255

\* Mutant: the increment is lost and the same item is played again.
NextIndex_Stuck(idx) == idx

\* currentIndex++ after playItem settled (either way).
NextIndex(idx) == idx + 1

\* "currentIndex >= playoutInfo.playlist.length" after the increment.
Wraps(idx, playlist) == idx >= Len(playlist)

\* Mutant: the catch branch gives up (running = false) instead of going on
\* to the next item.
AfterItem_StopOnError(code, idx, playlist, loop) ==
  LET idx1 == NextIndex(idx)
      wrap == Wraps(idx1, playlist)
  IN [idx     |-> IF wrap /\ loop THEN 0 ELSE idx1,
      running |-> Resolves(code) /\ ~(wrap /\ ~loop),
      refresh |-> Resolves(code) /\ wrap /\ loop]

\* What startPlayout makes of its locals once playItem settled: the try
\* branch (resolved) and the catch branch (rejected) both increment, wrap to 0
\* when looping and clear running otherwise; only the try branch refreshes.
AfterItem(code, idx, playlist, loop) ==
  LET idx1 == NextIndex(idx)
      wrap == Wraps(idx1, playlist)
  IN [idx     |-> IF wrap /\ loop THEN 0 ELSE idx1,
      running |-> ~(wrap /\ ~loop),
      refresh |-> Resolves(code) /\ wrap /\ loop]

\* The child of task t closes with the given code and the task runs on from
\* "await playItem" to its next await.  The media server holds a publisher
\* until its publish callback is answered, so the callbacks of the channel
\* have been made by then.
ProcExit(c, t, code) ==
  /\ Serving("playout") /\ ~Hung
  /\ procs[c][t] # "none"
  /\ tasks[c][t].pc = "play"
  /\ srs.calls[c] = <<>>
  /\ srs' = Notify(c, "unpublish")
  /\ procs' = [procs EXCEPT ![c][t] = "none"]
  /\ LET me   == tasks[c][t]
         ent0 == [e \in Tasks |->
                    IF entries[c][e].process = t
                    THEN [entries[c][e] EXCEPT !.process = DeadProc]
                    ELSE entries[c][e]]
         ent1 == ent0   \* playoutInfo.currentItem, set on resolve, is never read
         a    == AfterItem(code, me.idx, ent1[me.info].playlist, me.loop)
     IN IF a.refresh
        THEN \* currentIndex = 0; await getPlaylist(channelId)
             /\ tasks' = [tasks EXCEPT ![c][t].pc = "refresh", ![c][t].idx = a.idx]
             /\ entries' = [entries EXCEPT ![c] = ent1]
             /\ UNCHANGED activePlayouts
        ELSE LET h == LoopHead(activePlayouts[c], ent1, me.loop, a.idx, a.running)
             IN /\ tasks' = [tasks EXCEPT ![c][t] = AtHead(me, h)]
                /\ entries' = [entries EXCEPT ![c] = ent1]
                /\ activePlayouts' = [activePlayouts EXCEPT ![c] = h.ap]
  /\ UNCHANGED <<dbPlaylist, dbLoop, dbStatus, dbIndex, busP, nStart, nStop, nSkip,
                 nEdit, earlyStop,
                 restreamVars, pBudget, phase, spawnFailed, stopInFlight, vod, viewers>>

\* The refreshed playlist arrives at wraparound and the loop goes round.
RefreshDone(c, t) ==
  /\ Serving("playout") /\ ~Hung
  /\ tasks[c][t].pc = "refresh"
  /\ LET me  == tasks[c][t]
         ent == [entries[c] EXCEPT ![me.info].playlist = getPlaylist(c)]
         h   == LoopHead(activePlayouts[c], ent, me.loop, me.idx, TRUE)
     IN /\ tasks' = [tasks EXCEPT ![c][t] = AtHead(me, h)]
        /\ entries' = [entries EXCEPT ![c] = ent]
        /\ activePlayouts' = [activePlayouts EXCEPT ![c] = h.ap]
  /\ UNCHANGED <<dbPlaylist, dbLoop, dbStatus, dbIndex, busP, procs, nStart, nStop,
                 nSkip, nEdit, earlyStop,
                 restreamVars, serviceVars>>

\* The status write of the cleanup completes: startPlayout returns.
CleanupWriteDone(c, t) ==
  /\ Serving("playout") /\ ~Hung
  /\ tasks[c][t].pc = "cleanupWrite"
  /\ dbStatus' = [dbStatus EXCEPT ![c] = "stopped"]
  /\ tasks' = [tasks EXCEPT ![c][t].pc = "done"]
  /\ UNCHANGED <<dbPlaylist, dbLoop, dbIndex, busP, activePlayouts, entries, procs,
                 nStart, nStop, nSkip, nEdit, earlyStop,
                 restreamVars, serviceVars>>

\* Mutant: without an entry in the map the handler falls back on an entry
\* object that was set earlier and still refers to a child.
EntryProcess_Stale(ap, ent) ==
  IF ap # 0 THEN ent[ap].process
  ELSE LET S == {t \in DOMAIN ent : ent[t].process \in Tasks}
       IN IF S = {} THEN NoProc ELSE ent[CHOOSE t \in S : TRUE].process

\* "activePlayouts.get(channelId)?.process": the child the channel's entry
\* refers to, nothing when the channel has no entry.
EntryProcess(ap, ent) == IF ap # 0 THEN ent[ap].process ELSE NoProc

\* A startPlayout invocation that has not spawned its first child yet.
BeforeSpawn(task) == task.pc \in {"load", "idxWrite"} /\ ~task.spawned

\* stopPlayout: signal the child the entry refers to, delete the entry.
stopPlayout(c) ==
  /\ Serving("playout") /\ ~Hung
  /\ busP # <<>> /\ Head(busP).type = "stop" /\ Head(busP).ch = c
  /\ busP' = Tail(busP)
  /\ procs' = [procs EXCEPT ![c] = Kill(@, EntryProcess(activePlayouts[c], entries[c]))]
  /\ activePlayouts' = [activePlayouts EXCEPT ![c] = 0]
  /\ earlyStop' = [earlyStop EXCEPT ![c] =
                     @ \/ \E t \in Tasks : BeforeSpawn(tasks[c][t])]
  /\ UNCHANGED <<dbPlaylist, dbLoop, dbStatus, dbIndex, tasks, entries, nStart, nStop,
                 nSkip, nEdit,
                 restreamVars, serviceVars>>

\* skipItem: signal the child the entry refers to.
skipItem(c) ==
  /\ Serving("playout") /\ ~Hung
  /\ busP # <<>> /\ Head(busP).type = "skip" /\ Head(busP).ch = c
  /\ busP' = Tail(busP)
  /\ procs' = [procs EXCEPT ![c] = Kill(@, EntryProcess(activePlayouts[c], entries[c]))]
  /\ UNCHANGED <<dbPlaylist, dbLoop, dbStatus, dbIndex, tasks, activePlayouts, entries,
                 nStart, nStop, nSkip, nEdit, earlyStop,
                 restreamVars, serviceVars>>

\* POST /hooks/srs/linear/publish and /hooks/srs/linear/unpublish: the route
\* writes the status of the channel with the stream key.
linearHook(c) ==
  /\ srs.calls[c] # <<>>
  /\ dbStatus' = [dbStatus EXCEPT ![c] =
                     IF Head(srs.calls[c]) = "publish" THEN "running" ELSE "stopped"]
  /\ srs' = [srs EXCEPT !.calls[c] = Tail(@)]
  /\ UNCHANGED <<dbPlaylist, dbLoop, dbIndex, busP, tasks, activePlayouts, entries, procs,
                 nStart, nStop, nSkip, nEdit, earlyStop,
                 restreamVars, pBudget, phase, spawnFailed, stopInFlight, vod, viewers>>

\* ----------------------------------------------------------- restream
(***************************************************************************)
(* Restream service (restream/src/index.ts, kept in the second half of     *)
(* src/dashboard/src/pages/ChannelDetail.tsx): the four handlers for       *)
(* stream:start, stream:stop, restream:start and restream:stop, the        *)
(* activeProcesses map and the close handler of every ffmpeg child.  The   *)
(* close handler issues its status write without awaiting it, so that      *)
(* write is applied by a later step of its own.  All destinations belong   *)
(* to one stream.                                                          *)
(***************************************************************************)
Dests    == {"A", "B", "C"}
RowOrder == <<"A", "B", "C">>      \* the order in which the SELECT returns rows
RTasks   == 1..(MaxRestreamRequests + 1)
RProcs   == 1..(MaxRestreamRequests + 1)

\* Results of getPlatformRtmpUrl: an ingest target, null, or a thrown error.
ResolverResults == {"ok", "null", "throw"}

\* dup is history, kept for restream:start (whose destination is known when
\* the message arrives): the destination had a running, registered child when
\* the invocation began.
IdleRTask == [kind |-> "idle", pc |-> "idle", i |-> 0, dest |-> "", dup |-> FALSE]
DoneRTask == [kind |-> "done", pc |-> "done", i |-> 0, dest |-> "", dup |-> FALSE]

\* The rows handleStreamStart selects: destinations whose account is active.
RECURSIVE FilterRows(_, _)
FilterRows(seq, en) ==
  IF seq = <<>> THEN <<>>
  ELSE IF en[Head(seq)] THEN <<Head(seq)>> \o FilterRows(Tail(seq), en)
  ELSE FilterRows(Tail(seq), en)

Rows == FilterRows(RowOrder, [d \in Dests |-> rdStatus[d] # "absent" /\ enabled[d]])

RRequests == LET RECURSIVE Sum(_)
                 Sum(S) == IF S = {} THEN 0
                           ELSE LET d == CHOOSE x \in S : TRUE
                                IN nRestreamStart[d] + nRestreamStop[d] + Sum(S \ {d})
             IN nStreamStart + nStreamStop + Sum(Dests)

NextRTask == CHOOSE t \in RTasks : /\ rtasks[t].kind = "idle"
                                   /\ \A u \in RTasks : u < t => rtasks[u].kind # "idle"

\* The number startRestream gives the next child of destination d.
NextRProc(d) == CHOOSE p \in RProcs : /\ rprocs[d][p] = "none"
                                      /\ \A q \in RProcs : q < p => rprocs[d][q] # "none"

\* Destinations whose registered child is running.
Running == {d \in Dests : activeProcesses[d] # 0 /\ rprocs[d][activeProcesses[d]] = "live"}

RLive(d) == {p \in RProcs : rprocs[d][p] \in {"live", "term"}}

\* Mutant: the stop signals every running child of the destination, whether
\* or not the map still refers to it.
KillAll_Unregistered(pr, ap, ds) ==
  [d \in Dests |->
     IF d \in ds
     THEN [p \in DOMAIN pr[d] |-> IF pr[d][p] = "live" THEN "term" ELSE pr[d][p]]
     ELSE pr[d]]

\* process.kill('SIGTERM') and activeProcesses.delete for every destination
\* of ds that has an entry.
KillAll(pr, ap, ds) ==
  [d \in Dests |->
     IF d \in ds /\ ap[d] # 0 /\ pr[d][ap[d]] = "live"
     THEN [pr[d] EXCEPT ![ap[d]] = "term"]
     ELSE pr[d]]

DeleteAll(ap, ds) == [d \in Dests |-> IF d \in ds THEN 0 ELSE ap[d]]

\* Mutant: the close handler writes stopped whatever the exit code.
CloseStatus_AlwaysStopped(code) == "stopped"

\* The status the close handler writes for an exit code.
CloseStatus(code) == IF code = 0 THEN "stopped" ELSE "failed"

\* POST /streams/:id/start and the SRS on_publish hook publish stream:start.
PublishStreamStart ==
  /\ RRequests < rBudget
  /\ busR' = Deliver("restream", busR, [type |-> "stream:start", dest |-> ""])
  /\ nStreamStart' = nStreamStart + 1
  /\ UNCHANGED <<rdStatus, rdError, enabled, rtasks, activeProcesses, rprocs, pendingClose, nStreamStop, nRestreamStart, nRestreamStop, lateStop,
                 rBudget, playoutVars, serviceVars>>

\* POST /streams/:id/stop and the SRS on_unpublish hook publish stream:stop.
PublishStreamStop ==
  /\ RRequests < rBudget
  /\ busR' = Deliver("restream", busR, [type |-> "stream:stop", dest |-> ""])
  /\ nStreamStop' = nStreamStop + 1
  /\ UNCHANGED <<rdStatus, rdError, enabled, rtasks, activeProcesses, rprocs, pendingClose, nStreamStart, nRestreamStart, nRestreamStop, lateStop,
                 rBudget, playoutVars, serviceVars>>

\* POST /restream/:id/start: the route marks the destination pending and publishes.
ApiRestreamStart(d) ==
  /\ RRequests < rBudget
  /\ rdStatus[d] # "absent"
  /\ rdStatus' = [rdStatus EXCEPT ![d] = "pending"]
  /\ busR' = Deliver("restream", busR, [type |-> "restream:start", dest |-> d])
  /\ nRestreamStart' = [nRestreamStart EXCEPT ![d] = @ + 1]
  /\ UNCHANGED <<rdError, enabled, rtasks, activeProcesses, rprocs, pendingClose, nStreamStart, nStreamStop, nRestreamStop, lateStop,
                 rBudget, playoutVars, serviceVars>>

\* POST /restream/:id/stop: the route marks the destination stopped and publishes.
ApiRestreamStop(d) ==
  /\ RRequests < rBudget
  /\ rdStatus[d] # "absent"
  /\ rdStatus' = [rdStatus EXCEPT ![d] = "stopped"]
  /\ busR' = Deliver("restream", busR, [type |-> "restream:stop", dest |-> d])
  /\ nRestreamStop' = [nRestreamStop EXCEPT ![d] = @ + 1]
  /\ lateStop' = [lateStop EXCEPT ![d] =
                    @ \/ (/\ activeProcesses[d] = 0
                          /\ RLive(d) = {}
                          /\ \E p \in RProcs : rprocs[d][p] = "gone")]
  /\ UNCHANGED <<rdError, enabled, rtasks, activeProcesses, rprocs, pendingClose, nStreamStart, nStreamStop, nRestreamStart, rBudget, playoutVars, serviceVars>>

\* handleStreamStart up to the await of the SELECT of the stream's destinations.
handleStreamStart ==
  /\ Serving("restream")
  /\ busR # <<>> /\ Head(busR).type = "stream:start"
  /\ busR' = Tail(busR)
  /\ rtasks' = [rtasks EXCEPT ![NextRTask] =
                  [kind |-> "streamStart", pc |-> "select", i |-> 0, dest |-> "",
                   dup |-> FALSE]]
  /\ UNCHANGED <<rdStatus, rdError, enabled, activeProcesses, rprocs, pendingClose, nStreamStart, nStreamStop, nRestreamStart, nRestreamStop,
                 lateStop, rBudget, playoutVars, serviceVars>>

\* The rows arrive: the for loop calls getPlatformRtmpUrl for the first one.
StartSelectDone(t) ==
  /\ Serving("restream")
  /\ rtasks[t].kind = "streamStart" /\ rtasks[t].pc = "select"
  /\ rtasks' = [rtasks EXCEPT ![t] =
                  IF Rows = <<>> THEN DoneRTask
                  ELSE [@ EXCEPT !.pc = "resolve", !.i = 1, !.dest = Rows[1]]]
  /\ UNCHANGED <<rdStatus, rdError, enabled, busR, activeProcesses, rprocs, pendingClose, nStreamStart, nStreamStop, nRestreamStart, nRestreamStop,
                 lateStop, rBudget, playoutVars, serviceVars>>

\* handleRestreamStart up to the await of getPlatformRtmpUrl.
handleRestreamStart(d) ==
  /\ Serving("restream")
  /\ busR # <<>> /\ Head(busR) = [type |-> "restream:start", dest |-> d]
  /\ busR' = Tail(busR)
  /\ rtasks' = [rtasks EXCEPT ![NextRTask] =
                  [kind |-> "restreamStart", pc |-> "resolve", i |-> 0, dest |-> d,
                   dup |-> d \in Running]]
  /\ UNCHANGED <<rdStatus, rdError, enabled, activeProcesses, rprocs, pendingClose, nStreamStart, nStreamStop, nRestreamStart, nRestreamStop,
                 lateStop, rBudget, playoutVars, serviceVars>>

\* getPlatformRtmpUrl settles.  "ok": startRestream spawns the child, the
\* handler registers it and awaits the write of status active.  "null": the
\* handler awaits the write of status failed.  "throw": handleStreamStart's
\* catch awaits the write of status failed; handleRestreamStart has no catch
\* and ends with the rejection logged.
ResolveDone(t, r) ==
  /\ Serving("restream")
  /\ rtasks[t].pc = "resolve"
  /\ LET d == rtasks[t].dest IN
       /\ IF r = "ok"
          THEN /\ rprocs' = [rprocs EXCEPT ![d][NextRProc(d)] = "live"]
               /\ activeProcesses' = [activeProcesses EXCEPT ![d] = NextRProc(d)]
               /\ rtasks' = [rtasks EXCEPT ![t].pc = "wActive"]
          ELSE /\ UNCHANGED <<rprocs, activeProcesses>>
               /\ rtasks' = [rtasks EXCEPT ![t] =
                    IF r = "null" THEN [@ EXCEPT !.pc = "wFailedCreds"]
                    ELSE IF @.kind = "streamStart" THEN [@ EXCEPT !.pc = "wFailedExc"]
                    ELSE DoneRTask]
  /\ UNCHANGED <<rdStatus, rdError, enabled, busR, pendingClose, nStreamStart,
                 nStreamStop, nRestreamStart, nRestreamStop, lateStop, rBudget, playoutVars, serviceVars>>

\* Mutant: the try/catch is around the whole for loop, so the first failed
\* destination ends the fan-out.
NextRow_AbortOnFailure(task, rows) ==
  IF task.kind = "streamStart" /\ task.i < Len(rows) /\ task.pc = "wActive"
  THEN [task EXCEPT !.pc = "resolve", !.i = @ + 1, !.dest = rows[task.i + 1]]
  ELSE DoneRTask

\* After a handler's status write: handleStreamStart's for loop calls
\* getPlatformRtmpUrl for the next row, or the handler returns.
NextRow(task, rows) ==
  IF task.kind = "streamStart" /\ task.i < Len(rows)
  THEN [task EXCEPT !.pc = "resolve", !.i = @ + 1, !.dest = rows[task.i + 1]]
  ELSE DoneRTask

\* The handler's awaited status write completes; handleStreamStart goes on to
\* the next row, handleRestreamStart returns.
WriteDone(t) ==
  /\ Serving("restream")
  /\ rtasks[t].pc \in {"wActive", "wFailedCreds", "wFailedExc"}
  /\ LET d == rtasks[t].dest IN
       /\ rdStatus' = [rdStatus EXCEPT ![d] =
                         IF rtasks[t].pc = "wActive" THEN "active" ELSE "failed"]
       /\ rdError' = [rdError EXCEPT ![d] =
                        IF rtasks[t].pc = "wFailedCreds" THEN "creds"
                        ELSE IF rtasks[t].pc = "wFailedExc" THEN "exception"
                        ELSE @]
  /\ rtasks' = [rtasks EXCEPT ![t] = NextRow(@, Rows)]
  /\ UNCHANGED <<enabled, busR, activeProcesses, rprocs, pendingClose,
                 nStreamStart, nStreamStop, nRestreamStart, nRestreamStop, lateStop,
                 rBudget, playoutVars, serviceVars>>

\* Destinations for which a start invocation is waiting for the credentials or
\* for its write of status active.
Starting == {d \in Dests : \E t \in RTasks : /\ rtasks[t].pc \in {"resolve", "wActive"}
                                             /\ rtasks[t].dest = d}

\* handleStreamStop up to the await of the SELECT of the active destinations.
handleStreamStop ==
  /\ Serving("restream")
  /\ busR # <<>> /\ Head(busR).type = "stream:stop"
  /\ busR' = Tail(busR)
  /\ rtasks' = [rtasks EXCEPT ![NextRTask] =
                  [kind |-> "streamStop", pc |-> "select", i |-> 0, dest |-> "",
                   dup |-> FALSE]]
  /\ UNCHANGED <<rdStatus, rdError, enabled, activeProcesses, rprocs, pendingClose, nStreamStart, nStreamStop, nRestreamStart, nRestreamStop,
                 lateStop, rBudget, playoutVars, serviceVars>>

\* The active rows arrive: each one with an entry is signalled and deleted,
\* then the handler awaits the UPDATE.
StopSelectDone(t) ==
  /\ Serving("restream")
  /\ rtasks[t].kind = "streamStop" /\ rtasks[t].pc = "select"
  /\ LET ds == {d \in Dests : rdStatus[d] = "active"} IN
       /\ rprocs' = KillAll(rprocs, activeProcesses, ds)
       /\ activeProcesses' = DeleteAll(activeProcesses, {d \in ds : activeProcesses[d] # 0})
  /\ rtasks' = [rtasks EXCEPT ![t].pc = "update"]
  /\ stopInFlight' = [d \in Dests |-> stopInFlight[d] \/ d \in Starting]
  /\ UNCHANGED <<rdStatus, rdError, enabled, busR, pendingClose, nStreamStart,
                 nStreamStop, nRestreamStart, nRestreamStop, lateStop, rBudget, playoutVars,
                 pBudget, phase, spawnFailed, srs, vod, viewers>>

\* UPDATE ... SET status = 'stopped' WHERE stream_id = $1 AND status = 'active'.
StopUpdateDone(t) ==
  /\ Serving("restream")
  /\ rtasks[t].kind = "streamStop" /\ rtasks[t].pc = "update"
  /\ rdStatus' = [d \in Dests |-> IF rdStatus[d] = "active" THEN "stopped" ELSE rdStatus[d]]
  /\ rtasks' = [rtasks EXCEPT ![t] = DoneRTask]
  /\ UNCHANGED <<rdError, enabled, busR, activeProcesses, rprocs, pendingClose,
                 nStreamStart, nStreamStop, nRestreamStart, nRestreamStop, lateStop,
                 rBudget, playoutVars, serviceVars>>

\* handleRestreamStop: signal and delete the destination's entry, if any.
handleRestreamStop(d) ==
  /\ Serving("restream")
  /\ busR # <<>> /\ Head(busR) = [type |-> "restream:stop", dest |-> d]
  /\ busR' = Tail(busR)
  /\ rprocs' = KillAll(rprocs, activeProcesses, {d})
  /\ activeProcesses' = DeleteAll(activeProcesses, {d})
  /\ stopInFlight' = [stopInFlight EXCEPT ![d] = @ \/ d \in Starting]
  /\ UNCHANGED <<rdStatus, rdError, enabled, rtasks, pendingClose, nStreamStart,
                 nStreamStop, nRestreamStart, nRestreamStop, lateStop, rBudget, playoutVars,
                 pBudget, phase, spawnFailed, srs, vod, viewers>>

\* startRestream's close handler: the destination's entry is deleted, whichever
\* child it refers to, and the status write is issued without being awaited.
ProcClose(d, p, code) ==
  /\ Serving("restream")
  /\ rprocs[d][p] \in {"live", "term"}
  /\ rprocs' = [rprocs EXCEPT ![d][p] = IF @ = "term" THEN "gonek" ELSE "gone"]
  /\ activeProcesses' = [activeProcesses EXCEPT ![d] = 0]
  /\ pendingClose' = [pendingClose EXCEPT ![d][CloseStatus(code)] = @ + 1]
  /\ UNCHANGED <<rdStatus, rdError, enabled, busR, rtasks, nStreamStart,
                 nStreamStop, nRestreamStart, nRestreamStop, lateStop, rBudget, playoutVars, serviceVars>>

\* A close handler's status write reaches the store.
CloseWriteDone(d, st) ==
  /\ pendingClose[d][st] > 0
  /\ pendingClose' = [pendingClose EXCEPT ![d][st] = @ - 1]
  /\ rdStatus' = [rdStatus EXCEPT ![d] = st]
  /\ UNCHANGED <<rdError, enabled, busR, rtasks, activeProcesses, rprocs,
                 nStreamStart, nStreamStop, nRestreamStart, nRestreamStop, lateStop,
                 rBudget, playoutVars, serviceVars>>

\* ------------------------------------------------------------ lifecycle
\* main(): the service connects and subscribes; it issues no query but
\* SELECT NOW().
main(s) ==
  /\ phase[s] = "boot"
  /\ phase' = [phase EXCEPT ![s] = "up"]
  /\ UNCHANGED <<playoutVars, restreamVars, pBudget, spawnFailed, stopInFlight, srs, vod, viewers>>

\* The SIGTERM handler up to its first await: every child a map entry refers
\* to is signalled; the entries stay and the handlers go on running.
sigterm(s) ==
  /\ phase[s] = "up"
  /\ phase' = [phase EXCEPT ![s] = "stopping"]
  /\ IF s = "playout"
     THEN /\ procs' = [c \in Channels |->
                         Kill(procs[c], EntryProcess(activePlayouts[c], entries[c]))]
          /\ UNCHANGED rprocs
     ELSE /\ rprocs' = KillAll(rprocs, activeProcesses, Dests)
          /\ UNCHANGED procs
  /\ UNCHANGED <<dbPlaylist, dbLoop, dbStatus, dbIndex, busP, tasks, activePlayouts,
                 entries, nStart, nStop, nSkip, nEdit, earlyStop,
                 rdStatus, rdError, enabled, busR, rtasks, activeProcesses, pendingClose,
                 nStreamStart, nStreamStop, nRestreamStart, nRestreamStop, lateStop,
                 rBudget, pBudget, spawnFailed, stopInFlight, srs, vod, viewers>>

\* The SIGTERM handler after redis.quit, subscriber.quit and pool.end:
\* process.exit(0).
exit(s) ==
  /\ phase[s] = "stopping"
  /\ phase' = [phase EXCEPT ![s] = "exited"]
  /\ UNCHANGED <<playoutVars, restreamVars, pBudget, spawnFailed, stopInFlight, srs, vod, viewers>>

\* A store write of startPlayout is rejected: the await throws outside any
\* try block, the invocation ends there and the rejection is logged.
WriteFail(c, t) ==
  /\ Serving("playout") /\ ~Hung
  /\ tasks[c][t].pc \in {"idxWrite", "cleanupWrite", "emptyWrite"}
  /\ tasks' = [tasks EXCEPT ![c][t].pc = "failed"]
  /\ UNCHANGED <<dbPlaylist, dbLoop, dbStatus, dbIndex, busP, activePlayouts, entries, procs,
                 nStart, nStop, nSkip, nEdit, earlyStop, restreamVars, serviceVars>>

\* getPlaylist is rejected at wraparound: the await throws inside the try
\* block after "currentIndex = 0", the snapshot is not assigned and the
\* catch branch runs (increment, wrap test) up to the next await.
RefreshFail(c, t) ==
  /\ Serving("playout") /\ ~Hung
  /\ tasks[c][t].pc = "refresh"
  /\ LET me == tasks[c][t]
         a  == AfterItem(-1, me.idx, entries[c][me.info].playlist, me.loop)
         h  == LoopHead(activePlayouts[c], entries[c], me.loop, a.idx, a.running)
     IN /\ tasks' = [tasks EXCEPT ![c][t] = AtHead(me, h)]
        /\ activePlayouts' = [activePlayouts EXCEPT ![c] = h.ap]
  /\ UNCHANGED <<dbPlaylist, dbLoop, dbStatus, dbIndex, busP, entries, procs, nStart,
                 nStop, nSkip, nEdit, earlyStop,
                 restreamVars, serviceVars>>

\* The index write completes and spawn fails (ffmpeg missing or not
\* executable): the ChildProcess is stored in the entry, its 'error' event
\* rejects playItem and the catch branch runs, all before any other handler.
SpawnFail(c, t) ==
  /\ Serving("playout") /\ ~Hung
  /\ tasks[c][t].pc = "idxWrite"
  /\ dbIndex' = IndexWrite(dbIndex, c, tasks[c][t].idx)
  /\ spawnFailed' = [spawnFailed EXCEPT ![c] = TRUE]
  /\ LET me   == tasks[c][t]
         ent1 == IF activePlayouts[c] # 0
                 THEN [entries[c] EXCEPT ![activePlayouts[c]].process = DeadProc]
                 ELSE entries[c]
         a    == AfterItem(-1, me.idx, ent1[me.info].playlist, me.loop)
         h    == LoopHead(activePlayouts[c], ent1, me.loop, a.idx, a.running)
     IN /\ tasks' = [tasks EXCEPT ![c][t] = AtHead(me, h)]
        /\ entries' = [entries EXCEPT ![c] = ent1]
        /\ activePlayouts' = [activePlayouts EXCEPT ![c] = h.ap]
  /\ UNCHANGED <<dbPlaylist, dbLoop, dbStatus, busP, procs, nStart, nStop, nSkip, nEdit,
                 earlyStop, restreamVars, pBudget, phase, stopInFlight, srs, vod, viewers>>

\* ----------------------------------------------------------- transcoder
\* handleTranscode of the transcoder service, one invocation per uploaded
\* VOD; every await of the handler either completes or throws.
Vods == {"v1", "v2"}

\* PROFILES, in the order transcodeToHLS transcodes them.
Profiles == <<"1080p", "720p", "480p", "360p">>

NoJob == [status |-> "none", pc |-> "none", made |-> {}, ready |-> FALSE]

\* The awaits of the try block: the UPDATE to processing, getVideoInfo, the
\* UPDATE of the metadata, generateThumbnail, transcodeToHLS (one profile
\* after the other), the UPDATE to ready, redis.publish of vod:ready.
TryAwaits == {"wProcessing", "probe", "wMeta", "thumbnail", "hls", "wReady", "publish"}

\* The profile transcodeToHLS transcodes next, given the files made so far.
NextProfile(made) ==
  CHOOSE i \in DOMAIN Profiles :
    /\ Profiles[i] \notin made
    /\ \A j \in DOMAIN Profiles : j < i => Profiles[j] \in made

\* POST /vod/upload: the row is inserted as processing and vod:transcode is
\* published.
upload(v) ==
  /\ vod[v].status = "none"
  /\ vod' = [vod EXCEPT ![v] = [NoJob EXCEPT !.status = "processing", !.pc = "queued"]]
  /\ UNCHANGED <<playoutVars, restreamVars, pBudget, phase, spawnFailed, stopInFlight,
                 srs, viewers>>

\* handleTranscode up to the await of the UPDATE to processing.
handleTranscode(v) ==
  /\ vod[v].pc = "queued"
  /\ vod' = [vod EXCEPT ![v].pc = "wProcessing"]
  /\ UNCHANGED <<playoutVars, restreamVars, pBudget, phase, spawnFailed, stopInFlight,
                 srs, viewers>>

\* An await of the try block completes and the handler runs to the next one.
TryDone(v) ==
  /\ vod[v].pc \in TryAwaits
  /\ LET job == vod[v] IN
     vod' = [vod EXCEPT ![v] =
       CASE job.pc = "wProcessing" -> [job EXCEPT !.status = "processing", !.pc = "probe"]
         [] job.pc = "probe"       -> [job EXCEPT !.pc = "wMeta"]
         [] job.pc = "wMeta"       -> [job EXCEPT !.pc = "thumbnail"]
         [] job.pc = "thumbnail"   -> [job EXCEPT !.made = @ \cup {"thumbnail"}, !.pc = "hls"]
         [] job.pc = "hls"         ->
              LET i == NextProfile(job.made) IN
              IF i < Len(Profiles)
              THEN [job EXCEPT !.made = @ \cup {Profiles[i]}]
              ELSE [job EXCEPT !.made = @ \cup {Profiles[i], "master"}, !.pc = "wReady"]
         [] job.pc = "wReady"      -> [job EXCEPT !.status = "ready", !.pc = "publish"]
         [] job.pc = "publish"     -> [job EXCEPT !.ready = TRUE, !.pc = "done"]]
  /\ UNCHANGED <<playoutVars, restreamVars, pBudget, phase, spawnFailed, stopInFlight,
                 srs, viewers>>

\* An await of the try block throws: the catch block issues the UPDATE to
\* failed and awaits it.
TryThrows(v) ==
  /\ vod[v].pc \in TryAwaits
  /\ vod' = [vod EXCEPT ![v].pc = "wFailed"]
  /\ UNCHANGED <<playoutVars, restreamVars, pBudget, phase, spawnFailed, stopInFlight,
                 srs, viewers>>

\* The UPDATE of the catch block completes, or is rejected: the handler's
\* promise rejects and the subscriber's callback logs it.
CatchDone(v, ok) ==
  /\ vod[v].pc = "wFailed"
  /\ vod' = [vod EXCEPT ![v] =
               IF ok THEN [@ EXCEPT !.status = "failed", !.pc = "done"]
               ELSE [@ EXCEPT !.pc = "rejected"]]
  /\ UNCHANGED <<playoutVars, restreamVars, pBudget, phase, spawnFailed, stopInFlight,
                 srs, viewers>>

\* -------------------------------------------------------- viewer counter
\* incrementViewers, decrementViewers and getViewerCount of the API service
\* on one stream key.  INCR and DECR create a key that does not exist, counting
\* from 0.
MaxViewerCalls == 4   \* calls of the three functions made in a run

NoViewers == [exists |-> FALSE, count |-> 0, setting |-> 0, calls |-> 0, joins |-> 0,
              leaves |-> 0, stray |-> FALSE, returned |-> {}]

\* "count ? parseInt(count, 10) : 0": GET answers null for a key that does
\* not exist, and every string Redis stores for a counter is non-empty.
CountOf(key) == IF key.exists THEN key.count ELSE 0

\* incrementViewers: INCR, whose result is returned.
incrementViewers ==
  /\ viewers.calls < MaxViewerCalls
  /\ viewers' = [viewers EXCEPT !.exists = TRUE, !.count = @ + 1, !.calls = @ + 1,
                                !.joins = @ + 1,
                                !.returned = @ \cup {viewers.count + 1}]
  /\ UNCHANGED <<playoutVars, restreamVars, pBudget, phase, spawnFailed, stopInFlight,
                 srs, vod>>

\* decrementViewers up to its return or, for a negative result of DECR, up to
\* the await of SET.  stray is history: the leave came with no join before it.
decrementViewers ==
  /\ viewers.calls < MaxViewerCalls
  /\ viewers' = [viewers EXCEPT
                   !.exists = TRUE, !.count = @ - 1, !.calls = @ + 1, !.leaves = @ + 1,
                   !.stray = @ \/ viewers.leaves >= viewers.joins,
                   !.setting = IF viewers.count - 1 < 0 THEN @ + 1 ELSE @,
                   !.returned = IF viewers.count - 1 < 0 THEN @
                                ELSE @ \cup {viewers.count - 1}]
  /\ UNCHANGED <<playoutVars, restreamVars, pBudget, phase, spawnFailed, stopInFlight,
                 srs, vod>>

\* The SET of decrementViewers completes and the call returns 0.
decrementSet ==
  /\ viewers.setting > 0
  /\ viewers' = [viewers EXCEPT !.count = 0, !.setting = @ - 1,
                                !.returned = @ \cup {0}]
  /\ UNCHANGED <<playoutVars, restreamVars, pBudget, phase, spawnFailed, stopInFlight,
                 srs, vod>>

\* getViewerCount: GET and parseInt.
getViewerCount ==
  /\ viewers.calls < MaxViewerCalls
  /\ viewers' = [viewers EXCEPT !.calls = @ + 1,
                                !.returned = @ \cup {CountOf(viewers)}]
  /\ UNCHANGED <<playoutVars, restreamVars, pBudget, phase, spawnFailed, stopInFlight,
                 srs, vod>>

\* ------------------------------------------------------ specifications
InitPlayout ==
  /\ dbPlaylist \in [Channels -> {p \in Playlists : \A i \in DOMAIN p : p[i] = i}]
  /\ dbLoop \in [Channels -> BOOLEAN]
  /\ dbStatus = [c \in Channels |-> "stopped"]
  /\ dbIndex = [c \in Channels |-> 0]
  /\ busP = <<>>
  /\ tasks = [c \in Channels |-> [t \in Tasks |-> IdleTask]]
  /\ activePlayouts = [c \in Channels |-> 0]
  /\ entries = [c \in Channels |-> [t \in Tasks |-> NoEntry]]
  /\ procs = [c \in Channels |-> [t \in Tasks |-> "none"]]
  /\ nStart = [c \in Channels |-> 0]
  /\ nStop = [c \in Channels |-> 0]
  /\ nSkip = [c \in Channels |-> 0]
  /\ nEdit = [c \in Channels |-> 0]
  /\ earlyStop = [c \in Channels |-> FALSE]

\* The stream's destinations are those of ds, as the INSERT leaves them.
InitRestream(ds, budget) ==
  /\ rBudget = budget
  /\ rdStatus = [d \in Dests |-> IF d \in ds THEN "pending" ELSE "absent"]
  /\ rdError = [d \in Dests |-> "none"]
  /\ enabled \in [Dests -> BOOLEAN]
  /\ \A d \in Dests \ ds : enabled[d]
  /\ busR = <<>>
  /\ rtasks = [t \in RTasks |-> IdleRTask]
  /\ activeProcesses = [d \in Dests |-> 0]
  /\ rprocs = [d \in Dests |-> [p \in RProcs |-> "none"]]
  /\ pendingClose = [d \in Dests |-> [st \in {"stopped", "failed"} |-> 0]]
  /\ nStreamStart = 0
  /\ nStreamStop = 0
  /\ nRestreamStart = [d \in Dests |-> 0]
  /\ nRestreamStop = [d \in Dests |-> 0]
  /\ lateStop = [d \in Dests |-> FALSE]

\* The playout service alone: no channel has a playlist the API would start.
NoPlayout == /\ InitPlayout
             /\ dbPlaylist = [c \in Channels |-> <<>>]
             /\ dbLoop = [c \in Channels |-> TRUE]

\* The restream service alone: every destination's account is active.
NoRestream == InitRestream({}, 0) /\ enabled = [d \in Dests |-> TRUE]

NextPlayout ==
  \E c \in Channels :
    \/ ApiStart(c)
    \/ ApiStop(c)
    \/ ApiSkip(c)
    \/ \E p \in Edits(dbPlaylist[c]) : EditPlaylist(c, p)
    \/ startPlayout(c)
    \/ \E t \in Tasks : LoadDone(c, t)
    \/ \E t \in Tasks : EmptyWriteDone(c, t)
    \/ \E t \in Tasks : IdxWriteDone(c, t)
    \/ \E t \in Tasks, code \in ExitCodes : ProcExit(c, t, code)
    \/ \E t \in Tasks : RefreshDone(c, t)
    \/ \E t \in Tasks : CleanupWriteDone(c, t)
    \/ stopPlayout(c)
    \/ skipItem(c)

NextRestream ==
  \/ PublishStreamStart
  \/ PublishStreamStop
  \/ \E d \in Dests : ApiRestreamStart(d)
  \/ \E d \in Dests : ApiRestreamStop(d)
  \/ handleStreamStart
  \/ \E t \in RTasks : StartSelectDone(t)
  \/ \E d \in Dests : handleRestreamStart(d)
  \/ \E t \in RTasks, r \in ResolverResults : ResolveDone(t, r)
  \/ \E t \in RTasks : WriteDone(t)
  \/ handleStreamStop
  \/ \E t \in RTasks : StopSelectDone(t)
  \/ \E t \in RTasks : StopUpdateDone(t)
  \/ \E d \in Dests : handleRestreamStop(d)
  \/ \E d \in Dests, p \in RProcs, code \in ExitCodes : ProcClose(d, p, code)
  \/ \E d \in Dests, st \in {"stopped", "failed"} : CloseWriteDone(d, st)

\* Both services are running, nothing has failed.
InitServices(budget) ==
  /\ pBudget = budget
  /\ phase = [s \in Services |-> "up"]
  /\ spawnFailed = [c \in Channels |-> FALSE]
  /\ stopInFlight = [d \in Dests |-> FALSE]
  /\ srs = [hooks |-> FALSE, calls |-> [c \in Channels |-> <<>>]]
  /\ vod = [v \in Vods |-> NoJob]
  /\ viewers = NoViewers

\* The playout service with the restream service idle.
StartPlayout == InitPlayout /\ NoRestream /\ InitServices(MaxRequests)

SpecPlayout == StartPlayout /\ [][NextPlayout]_vars

\* The steps the playout service takes by itself: a handler runs for each
\* delivered message and every query it awaits completes. The exit of a
\* child is the child's, not the service's.
PlayoutStep ==
  \E c \in Channels :
    \/ startPlayout(c)
    \/ \E t \in Tasks : LoadDone(c, t)
    \/ \E t \in Tasks : EmptyWriteDone(c, t)
    \/ \E t \in Tasks : IdxWriteDone(c, t)
    \/ \E t \in Tasks : RefreshDone(c, t)
    \/ \E t \in Tasks : CleanupWriteDone(c, t)
    \/ stopPlayout(c)
    \/ skipItem(c)

\* The playout service with every step of its own eventually taken.
SpecTerminate == StartPlayout /\ [][NextPlayout]_vars /\ WF_vars(PlayoutStep)

\* Stream start alone, fanning out to three destinations.
NextFanout ==
  \/ PublishStreamStart
  \/ handleStreamStart
  \/ \E t \in RTasks : StartSelectDone(t)
  \/ \E t \in RTasks, r \in ResolverResults : ResolveDone(t, r)
  \/ \E t \in RTasks : WriteDone(t)
  \/ \E d \in Dests, p \in RProcs, code \in ExitCodes : ProcClose(d, p, code)
  \/ \E d \in Dests, st \in {"stopped", "failed"} : CloseWriteDone(d, st)

\* A linear route publishes a message for a channel other than those of
\* Channels; one such message waits at a time.
ApiOther ==
  /\ \A i \in DOMAIN busP : busP[i].ch \in Channels
  /\ busP' = Deliver("playout", busP, [type |-> "skip", ch |-> "other", loop |-> FALSE])
  /\ UNCHANGED <<dbPlaylist, dbLoop, dbStatus, dbIndex, tasks, activePlayouts, entries,
                 procs, nStart, nStop, nSkip, nEdit, earlyStop,
                 restreamVars, serviceVars>>

\* The subscriber's callback runs for a message of another channel: the
\* handler reads and writes that channel's entry only.
handleOther ==
  /\ Serving("playout") /\ ~Hung
  /\ busP # <<>> /\ Head(busP).ch \notin Channels
  /\ busP' = Tail(busP)
  /\ UNCHANGED <<dbPlaylist, dbLoop, dbStatus, dbIndex, tasks, activePlayouts, entries,
                 procs, nStart, nStop, nSkip, nEdit, earlyStop,
                 restreamVars, serviceVars>>

\* The playout service with messages for other channels among those of c1.
NextOthers ==
  \/ NextPlayout
  \/ ApiOther
  \/ handleOther

SpecOthers == StartPlayout /\ [][NextOthers]_vars

\* Users of the API.  Every channel and every VOD of Items belongs to the
\* first; ForeignVod is a ready VOD of the second.
Users == {"u1", "u2"}
ForeignVod == MaxLen + 1
Owner(c) == "u1"
VodOwner(i) == IF i \in Items THEN "u1" ELSE "u2"

\* DELETE /linear/:id by a user whose id is not the row's user_id: the route
\* publishes playout:stop for the id of the request, then its DELETE ...
\* WHERE id = $1 AND user_id = $2 matches no row and it answers 404.  by is
\* history: the user of the request.
DeleteChannelDenied(u, c) ==
  /\ Requests < pBudget
  /\ u # Owner(c)
  /\ busP' = Deliver("playout", busP,
                     [type |-> "stop", ch |-> c, loop |-> FALSE, by |-> u])
  /\ nStop' = [nStop EXCEPT ![c] = @ + 1]
  /\ UNCHANGED <<dbPlaylist, dbLoop, dbStatus, dbIndex, tasks, activePlayouts, entries,
                 procs, nStart, nSkip, nEdit, earlyStop,
                 restreamVars, serviceVars>>

\* POST /linear/:id/playlist by user u with no position given: the VOD has to
\* be a ready one of u; the row is inserted at MAX(position) + 1 of the
\* channel of the request, whose user_id is not looked at.
AddPlaylistItem(u, c, i) ==
  /\ Requests < pBudget
  /\ VodOwner(i) = u
  /\ Len(dbPlaylist[c]) < MaxLen
  /\ \A k \in DOMAIN dbPlaylist[c] : dbPlaylist[c][k] # i
  /\ dbPlaylist' = [dbPlaylist EXCEPT ![c] = Append(@, i)]
  /\ nEdit' = [nEdit EXCEPT ![c] = @ + 1]
  /\ UNCHANGED <<dbLoop, dbStatus, dbIndex, busP, tasks, activePlayouts, entries, procs,
                 nStart, nStop, nSkip, earlyStop,
                 restreamVars, serviceVars>>

\* The playout service and the linear routes called by both users.
NextOwners ==
  \/ NextPlayout
  \/ \E c \in Channels, u \in Users : DeleteChannelDenied(u, c)
  \/ \E c \in Channels, u \in Users, i \in Items \cup {ForeignVod} :
       AddPlaylistItem(u, c, i)

SpecOwners == StartPlayout /\ [][NextOwners]_vars

\* The playout service, a channel being started twice at most.
NextTwoStarts ==
  \E c \in Channels :
    \/ nStart[c] < 2 /\ ApiStart(c)
    \/ ApiStop(c)
    \/ ApiSkip(c)
    \/ \E p \in Edits(dbPlaylist[c]) : EditPlaylist(c, p)
    \/ startPlayout(c)
    \/ \E t \in Tasks : LoadDone(c, t)
    \/ \E t \in Tasks : EmptyWriteDone(c, t)
    \/ \E t \in Tasks : IdxWriteDone(c, t)
    \/ \E t \in Tasks, code \in ExitCodes : ProcExit(c, t, code)
    \/ \E t \in Tasks : RefreshDone(c, t)
    \/ \E t \in Tasks : CleanupWriteDone(c, t)
    \/ stopPlayout(c)
    \/ skipItem(c)

SpecTwoStarts == StartPlayout /\ [][NextTwoStarts]_vars

\* Stops and skips of channels whose playlist is not edited, a channel
\* being started twice at most.
NextRuns ==
  \E c \in Channels :
    \/ nStart[c] < 2 /\ ApiStart(c)
    \/ ApiStop(c)
    \/ ApiSkip(c)
    \/ startPlayout(c)
    \/ \E t \in Tasks : LoadDone(c, t)
    \/ \E t \in Tasks : IdxWriteDone(c, t)
    \/ \E t \in Tasks, code \in ExitCodes : ProcExit(c, t, code)
    \/ \E t \in Tasks : RefreshDone(c, t)
    \/ \E t \in Tasks : CleanupWriteDone(c, t)
    \/ stopPlayout(c)
    \/ skipItem(c)

SpecRuns == StartPlayout /\ [][NextRuns]_vars

\* The playout service with the media server calling the linear hooks.
StartHooks ==
  /\ InitPlayout /\ NoRestream
  /\ pBudget = MaxRequests
  /\ phase = [s \in Services |-> "up"]
  /\ spawnFailed = [c \in Channels |-> FALSE]
  /\ stopInFlight = [d \in Dests |-> FALSE]
  /\ srs = [hooks |-> TRUE, calls |-> [c \in Channels |-> <<>>]]
  /\ vod = [v \in Vods |-> NoJob]
  /\ viewers = NoViewers

NextHooks ==
  \/ NextPlayout
  \/ \E c \in Channels : linearHook(c)

SpecHooks == StartHooks /\ [][NextHooks]_vars

\* Starts and playlist edits alone, with one request more than the other
\* runs make.
StartEdits == InitPlayout /\ NoRestream /\ InitServices(MaxRequests + 1)

NextEdits ==
  \E c \in Channels :
    \/ ApiStart(c)
    \/ \E p \in Edits(dbPlaylist[c]) : EditPlaylist(c, p)
    \/ startPlayout(c)
    \/ \E t \in Tasks : LoadDone(c, t)
    \/ \E t \in Tasks : EmptyWriteDone(c, t)
    \/ \E t \in Tasks : IdxWriteDone(c, t)
    \/ \E t \in Tasks, code \in ExitCodes : ProcExit(c, t, code)
    \/ \E t \in Tasks : RefreshDone(c, t)
    \/ \E t \in Tasks : CleanupWriteDone(c, t)

SpecEdits == StartEdits /\ [][NextEdits]_vars

\* One start, and skips, of channels that have loop_playlist set, with one
\* request more than the other runs make.
StartLooping ==
  /\ InitPlayout /\ NoRestream /\ InitServices(MaxRequests + 1)
  /\ \A c \in Channels : dbLoop[c]

NextLooping ==
  \E c \in Channels :
    \/ nStart[c] < 1 /\ ApiStart(c)
    \/ ApiSkip(c)
    \/ startPlayout(c)
    \/ \E t \in Tasks : LoadDone(c, t)
    \/ \E t \in Tasks : IdxWriteDone(c, t)
    \/ \E t \in Tasks, code \in ExitCodes : ProcExit(c, t, code)
    \/ \E t \in Tasks : RefreshDone(c, t)
    \/ skipItem(c)

SpecLooping == StartLooping /\ [][NextLooping]_vars

\* The looping channels, the store rejecting reads of the playlist at times.
NextRefreshFail ==
  \/ NextLooping
  \/ \E c \in Channels, t \in Tasks : RefreshFail(c, t)

SpecRefreshFail == StartLooping /\ [][NextRefreshFail]_vars

\* The transcoder service alone.
StartTranscode == NoPlayout /\ NoRestream /\ InitServices(0)

NextTranscode ==
  \E v \in Vods :
    \/ upload(v)
    \/ handleTranscode(v)
    \/ TryDone(v)
    \/ TryThrows(v)
    \/ \E ok \in BOOLEAN : CatchDone(v, ok)

SpecTranscode == StartTranscode /\ [][NextTranscode]_vars

\* The viewer counter of one stream alone.
StartViewers == NoPlayout /\ NoRestream /\ InitServices(0)

NextViewers ==
  \/ incrementViewers
  \/ decrementViewers
  \/ decrementSet
  \/ getViewerCount

SpecViewers == StartViewers /\ [][NextViewers]_vars

\* Starts and stops alone of a channel that plays one item once, with one
\* request more than the other runs make.
StartStops ==
  /\ InitPlayout /\ NoRestream /\ InitServices(MaxRequests + 1)
  /\ \A c \in Channels : ~dbLoop[c] /\ Len(dbPlaylist[c]) = 1

NextStops ==
  \E c \in Channels :
    \/ nStart[c] < MaxRequests /\ ApiStart(c)
    \/ ApiStop(c)
    \/ startPlayout(c)
    \/ \E t \in Tasks : LoadDone(c, t)
    \/ \E t \in Tasks : IdxWriteDone(c, t)
    \/ \E t \in Tasks, code \in ExitCodes : ProcExit(c, t, code)
    \/ \E t \in Tasks : CleanupWriteDone(c, t)
    \/ stopPlayout(c)

SpecStops == StartStops /\ [][NextStops]_vars

\* Both services from their boot, the store as an earlier process left it,
\* with termination signals, rejected writes and failed spawns.
StartLifecycle ==
  /\ dbPlaylist \in [Channels -> {p \in Playlists : \A i \in DOMAIN p : p[i] = i}]
  /\ dbLoop \in [Channels -> BOOLEAN]
  /\ dbStatus \in [Channels -> {"stopped", "running"}]
  /\ dbIndex = [c \in Channels |-> 0]
  /\ busP = <<>>
  /\ tasks = [c \in Channels |-> [t \in Tasks |-> IdleTask]]
  /\ activePlayouts = [c \in Channels |-> 0]
  /\ entries = [c \in Channels |-> [t \in Tasks |-> NoEntry]]
  /\ procs = [c \in Channels |-> [t \in Tasks |-> "none"]]
  /\ nStart = [c \in Channels |-> 0]
  /\ nStop = [c \in Channels |-> 0]
  /\ nSkip = [c \in Channels |-> 0]
  /\ nEdit = [c \in Channels |-> 0]
  /\ earlyStop = [c \in Channels |-> FALSE]
  /\ NoRestream
  /\ pBudget = MaxRequests
  /\ phase = [s \in Services |-> "boot"]
  /\ spawnFailed = [c \in Channels |-> FALSE]
  /\ stopInFlight = [d \in Dests |-> FALSE]
  /\ srs = [hooks |-> FALSE, calls |-> [c \in Channels |-> <<>>]]
  /\ vod = [v \in Vods |-> NoJob]
  /\ viewers = NoViewers

NextLifecycle ==
  \/ NextPlayout
  \/ \E s \in Services : main(s)
  \/ \E s \in Services : sigterm(s)
  \/ \E s \in Services : exit(s)
  \/ \E c \in Channels, t \in Tasks : WriteFail(c, t)
  \/ \E c \in Channels, t \in Tasks : SpawnFail(c, t)

SpecLifecycle == StartLifecycle /\ [][NextLifecycle]_vars

\* The restream service, the stream having destinations A and B.
StartRestream == InitRestream({"A", "B"}, MaxRestreamRequests) /\ NoPlayout /\ InitServices(0)

SpecRestream == StartRestream /\ [][NextRestream]_vars

\* The restream service for a stream with the single destination A, with one
\* request more than the two-destination runs make.
StartOneDest ==
  /\ InitRestream({"A"}, MaxRestreamRequests + 1) /\ NoPlayout /\ InitServices(0)
  /\ enabled = [d \in Dests |-> TRUE]

\* Manual starts of the destination and both kinds of stop.
NextOneDest ==
  \/ PublishStreamStop
  \/ \E d \in Dests : ApiRestreamStart(d)
  \/ \E d \in Dests : ApiRestreamStop(d)
  \/ \E d \in Dests : handleRestreamStart(d)
  \/ \E t \in RTasks, r \in ResolverResults : ResolveDone(t, r)
  \/ \E t \in RTasks : WriteDone(t)
  \/ handleStreamStop
  \/ \E t \in RTasks : StopSelectDone(t)
  \/ \E t \in RTasks : StopUpdateDone(t)
  \/ \E d \in Dests : handleRestreamStop(d)
  \/ \E d \in Dests, p \in RProcs, code \in ExitCodes : ProcClose(d, p, code)
  \/ \E d \in Dests, st \in {"stopped", "failed"} : CloseWriteDone(d, st)

SpecOneDest == StartOneDest /\ [][NextOneDest]_vars

\* The fan-out of a stream that has all three destinations.
StartFanout == InitRestream(Dests, MaxFanouts) /\ NoPlayout /\ InitServices(0)

SpecFanout == StartFanout /\ [][NextFanout]_vars

\* The fan-out of a stream that has the two destinations A and B.
StartPair == InitRestream({"A", "B"}, MaxFanouts) /\ NoPlayout /\ InitServices(0)

SpecPair == StartPair /\ [][NextFanout]_vars

\* ------------------------------------------------------------- claims

\* The snapshot the first startPlayout invocation of channel c took.
Snapshot(c) == entries[c][1].playlist

\* Channel c got exactly one start and no stop: task 1 is its only run.
SingleRun(c) == nStart[c] = 1 /\ nStop[c] = 0

\* A step in which task t of channel c completes its index write and spawns.
WriteStep(c, t) == tasks[c][t].pc = "idxWrite" /\ tasks'[c][t].pc = "play"

\* C1: a single start of a non-empty, non-looping playlist of length N, with
\* no stop and no skip, writes current_item_index 0, 1, ..., N-1 in that order
\* (the first write is 0, each later write is the previous value plus one and
\* spawns the child, the value at the end is N-1) and ends with the stored
\* status stopped, no activePlayouts entry and no child left.
C1_Run(c) == SingleRun(c) /\ nSkip[c] = 0 /\ ~tasks[c][1].loop

C1_PlaysThrough ==
  /\ [](\A c \in Channels :
          C1_Run(c) /\ tasks[c][1].pc = "done" /\ tasks[c][1].spawned =>
            /\ dbIndex[c] = Len(Snapshot(c)) - 1
            /\ dbStatus[c] = "stopped"
            /\ activePlayouts[c] = 0
            /\ procs[c][1] = "none")
  /\ [][\A c \in Channels :
          C1_Run(c) =>
            /\ WriteStep(c, 1) =>
                 /\ dbIndex'[c] = IF tasks[c][1].spawned THEN dbIndex[c] + 1 ELSE 0
                 /\ dbIndex'[c] < Len(Snapshot(c))
                 /\ procs'[c][1] = "live"
            /\ ~WriteStep(c, 1) => dbIndex'[c] = dbIndex[c]]_vars

C1_Witness ==
  \E c \in Channels :
    /\ C1_Run(c) /\ tasks[c][1].pc = "done"
    /\ Len(Snapshot(c)) = 2 /\ dbIndex[c] = 1
    /\ dbStatus[c] = "stopped" /\ activePlayouts[c] = 0

\* C2: a playout:start handled while the channel has an activePlayouts entry
\* is a no-op: that invocation never replaces the entry and never spawns.
C2_DuplicateStartIsNoOp ==
  \A c \in Channels, t \in Tasks :
    tasks[c][t].dup => /\ activePlayouts[c] # t
                       /\ procs[c][t] = "none"
                       /\ ~tasks[c][t].spawned

\* C3: a stop handled after the (only) start was delivered and before that
\* start spawned is not lost: the channel has no child afterwards.
C3_EarlyStopNotLost ==
  \A c \in Channels :
    earlyStop[c] /\ nStart[c] = 1 => \A t \in Tasks : procs[c][t] = "none"

\* C4: at most one child spawned for a channel is live at any time.
LiveChildren(c) == {t \in Tasks : procs[c][t] # "none"}

C4_AtMostOneLive ==
  /\ \A c \in Channels : Cardinality(LiveChildren(c)) <= 1
  /\ \A d \in Dests : Cardinality(RLive(d)) <= 1

\* C5: in a stream:start fan-out (the only request of the run) every enabled
\* destination whose credential resolution fails (null or thrown) gets no
\* child and ends with status failed and an error message, and every one
\* whose resolution succeeds gets a child registered under its id and, while
\* that child runs, ends with status active; no step taken for one
\* destination touches another.
FanoutWaiting(t) ==
  /\ rtasks[t].kind = "streamStart"
  /\ rtasks[t].pc \in {"resolve", "wActive", "wFailedCreds", "wFailedExc"}

C5_FailureIsIsolated ==
  /\ [](nStreamStart = 1 /\ rtasks[1] = DoneRTask =>
          \A d \in Dests :
            IF ~enabled[d]
            THEN rdStatus[d] = "pending" /\ rprocs[d][1] = "none"
            ELSE IF rprocs[d][1] = "none"
            THEN /\ rdStatus[d] = "failed" /\ rdError[d] # "none"
                 /\ activeProcesses[d] = 0
            ELSE /\ rdError[d] = "none"
                 /\ rprocs[d][1] = "live" =>
                      activeProcesses[d] = 1 /\ rdStatus[d] = "active")
  /\ [][\A t \in RTasks :
          nStreamStart = 1 /\ FanoutWaiting(t) /\ rtasks'[t] # rtasks[t] =>
            LET d == rtasks[t].dest IN
              /\ rtasks[t].pc = "resolve" /\ rtasks'[t].pc = "wActive" =>
                    rprocs'[d][1] = "live" /\ activeProcesses'[d] = 1
              /\ rtasks[t].pc = "resolve" /\ rtasks'[t].pc # "wActive" =>
                    rprocs'[d] = rprocs[d] /\ activeProcesses'[d] = activeProcesses[d]
              /\ \A e \in Dests \ {d} :
                    /\ rdStatus'[e] = rdStatus[e] /\ rdError'[e] = rdError[e]
                    /\ rprocs'[e] = rprocs[e]
                    /\ activeProcesses'[e] = activeProcesses[e]]_vars

C5_Witness ==
  /\ nStreamStart = 1 /\ rtasks[1] = DoneRTask
  /\ rprocs["A"][1] = "live" /\ activeProcesses["A"] = 1 /\ rdStatus["A"] = "active"
  /\ rprocs["B"][1] = "none" /\ rdStatus["B"] = "failed" /\ rdError["B"] # "none"
  /\ rprocs["C"][1] = "live" /\ activeProcesses["C"] = 1 /\ rdStatus["C"] = "active"

\* C6: while a fan-out waits for one destination (its credential resolution
\* or its status write), no other enabled destination of the stream is left
\* unstarted: each of the later rows has had its resolution requested.
Started(d) ==
  \/ \E u \in RTasks : rtasks[u].dest = d
  \/ rprocs[d][1] # "none"
  \/ rdStatus[d] # "pending"

C6_NoSiblingWait ==
  \A t \in RTasks :
    FanoutWaiting(t) => \A j \in 1..Len(Rows) : j > rtasks[t].i => Started(Rows[j])

\* Nothing of the restream service is in flight.
RQuiescent ==
  /\ busR = <<>>
  /\ \A t \in RTasks : rtasks[t].kind \in {"idle", "done"}
  /\ \A d \in Dests, st \in {"stopped", "failed"} : pendingClose[d][st] = 0

RStarts == LET RECURSIVE Sum(_)
               Sum(S) == IF S = {} THEN 0
                         ELSE LET d == CHOOSE x \in S : TRUE
                              IN nRestreamStart[d] + Sum(S \ {d})
           IN nStreamStart + Sum(Dests)

\* C7: after one start and one stream:stop, once everything has settled,
\* every destination whose running child the stop signalled has no entry, no
\* child and the stored status stopped, whatever code the child reported.
C7_StreamStopLeavesStopped ==
  RStarts = 1 /\ nStreamStop = 1 /\ (\A d \in Dests : nRestreamStop[d] = 0) /\ RQuiescent =>
    \A d \in Dests :
      rprocs[d][1] = "gonek" =>
        /\ activeProcesses[d] = 0
        /\ RLive(d) = {}
        /\ rdStatus[d] = "stopped"

\* C8: a restream stop requested for a destination whose child has already
\* closed on its own (no entry, no child) leaves it, once everything has
\* settled and with no start after it, with the stored status stopped.
C8_LateStopLeavesStopped ==
  RStarts = 1 /\ nStreamStop = 0 /\ RQuiescent =>
    \A d \in Dests : lateStop[d] => rdStatus[d] = "stopped"

\* C9: on a non-looping channel in its only run, a skip signals only the
\* child the entry refers to and changes nothing else; when the signalled
\* child of item i closes, with whatever code, the loop goes to item i+1
\* (next it writes i+1 and spawns that item) or, after the last item, deletes
\* the entry and writes status stopped.
C9_Run(c) == SingleRun(c) /\ ~tasks[c][1].loop

C9_SkipAdvancesByOne ==
  [][\A c \in Channels :
       C9_Run(c) =>
         LET me == tasks[c][1]
             i  == me.idx
             N  == Len(Snapshot(c))
         IN /\ \* the skip handler
               (busP # <<>> /\ Head(busP) = [type |-> "skip", ch |-> c, loop |-> FALSE]
                  /\ busP' = Tail(busP)) =>
                 /\ tasks' = tasks /\ activePlayouts' = activePlayouts
                 /\ entries' = entries /\ dbIndex' = dbIndex /\ dbStatus' = dbStatus
                 /\ procs'[c][1] = IF procs[c][1] = "live" THEN "term" ELSE procs[c][1]
            /\ \* the signalled child closes
               (procs[c][1] = "term" /\ procs'[c][1] = "none") =>
                 IF i + 1 < N
                 THEN /\ tasks'[c][1].pc = "idxWrite" /\ tasks'[c][1].idx = i + 1
                      /\ activePlayouts'[c] = 1
                 ELSE /\ tasks'[c][1].pc = "cleanupWrite"
                      /\ activePlayouts'[c] = 0
            /\ WriteStep(c, 1) => dbIndex'[c] = i /\ procs'[c][1] = "live"
            /\ (me.pc = "cleanupWrite" /\ tasks'[c][1].pc = "done") =>
                 dbStatus'[c] = "stopped" /\ activePlayouts'[c] = 0]_vars

C9_Witness ==
  \E c \in Channels :
    /\ C9_Run(c) /\ nSkip[c] = 1
    /\ procs[c][1] = "term"
    /\ Len(Snapshot(c)) = 2 /\ tasks[c][1].idx = 1

\* C10: with loop set, a playlist of constant length N >= 1 and no stop, the
\* only run never reaches its cleanup: it keeps its activePlayouts entry, is
\* always waiting for the playlist, an index write or a child, and the
\* indices it writes are 0, 1, ..., N-1, 0, ... whatever the exit codes.
C10_Run(c) == SingleRun(c) /\ nEdit[c] = 0 /\ tasks[c][1].loop

C10_LoopNeverEnds ==
  /\ [](\A c \in Channels :
          C10_Run(c) =>
            /\ tasks[c][1].pc \in {"load", "idxWrite", "play", "refresh"}
            /\ tasks[c][1].pc # "load" => activePlayouts[c] = 1
            /\ tasks[c][1].pc = "play" <=> procs[c][1] # "none")
  /\ [][\A c \in Channels :
          C10_Run(c) /\ WriteStep(c, 1) =>
            dbIndex'[c] = IF tasks[c][1].spawned
                          THEN (dbIndex[c] + 1) % Len(dbPlaylist[c])
                          ELSE 0]_vars

C10_Witness ==
  \E c \in Channels :
    /\ C10_Run(c) /\ tasks[c][1].spawned
    /\ tasks[c][1].pc = "idxWrite" /\ tasks[c][1].idx = 0
    /\ Len(dbPlaylist[c]) = 2 /\ dbIndex[c] = 1

\* C11: handling playout:stop for a channel that has no activePlayouts entry
\* changes nothing but the message queue: no child is signalled or spawned,
\* no entry is created, no invocation is disturbed and nothing is written to
\* the store.
StopStep(c) ==
  /\ busP # <<>> /\ Head(busP) = [type |-> "stop", ch |-> c, loop |-> FALSE]
  /\ busP' = Tail(busP)

C11_StopNotRunningIsNoOp ==
  [][\A c \in Channels :
       StopStep(c) /\ activePlayouts[c] = 0 =>
         /\ procs' = procs /\ tasks' = tasks
         /\ activePlayouts' = activePlayouts /\ entries' = entries
         /\ dbStatus' = dbStatus /\ dbIndex' = dbIndex /\ dbPlaylist' = dbPlaylist]_vars

C11_Witness ==
  \E c \in Channels :
    /\ nStart[c] = 0 /\ nStop[c] = 1 /\ busP = <<>>
    /\ activePlayouts[c] = 0 /\ dbStatus[c] = "stopped"

\* C12: a startPlayout invocation whose loaded snapshot is empty spawns no
\* child and sets no activePlayouts entry; it only writes status stopped and
\* returns.
C12_EmptySnapshotStops ==
  /\ [](\A c \in Channels, t \in Tasks :
          tasks[c][t].pc = "emptyWrite" =>
            procs[c][t] = "none" /\ activePlayouts[c] # t /\ ~tasks[c][t].spawned)
  /\ [][\A c \in Channels, t \in Tasks :
          /\ (tasks[c][t].pc = "load" /\ tasks'[c][t].pc # "load"
                 /\ getPlaylist(c) = <<>>) =>
                /\ tasks'[c][t].pc = "emptyWrite"
                /\ procs' = procs /\ activePlayouts' = activePlayouts
                /\ entries' = entries /\ dbStatus' = dbStatus
          /\ (tasks[c][t].pc = "emptyWrite" /\ tasks'[c][t].pc # "emptyWrite") =>
                /\ tasks'[c][t].pc = "done" /\ dbStatus'[c] = "stopped"
                /\ procs' = procs /\ activePlayouts' = activePlayouts
                /\ entries' = entries]_vars

C12_Witness ==
  \E c \in Channels :
    /\ nStart[c] = 1 /\ nEdit[c] = 1 /\ dbPlaylist[c] = <<>>
    /\ tasks[c][1].pc = "done" /\ ~tasks[c][1].spawned
    /\ dbStatus[c] = "stopped" /\ activePlayouts[c] = 0
    /\ \A t \in Tasks : procs[c][t] = "none"

\* C13: a restream:start handled for a destination whose child is running
\* and registered is a no-op: that invocation spawns no second child and does
\* not replace the registered one.
C13_DuplicateRestreamStartIsNoOp ==
  \A t \in RTasks : rtasks[t].dup => rtasks[t].pc # "wActive"

\* C14: stop handling is idempotent: a step of the stream:stop handler, or
\* the restream:stop handler of destination d, taken while d is stored as
\* stopped and has no activeProcesses entry changes neither d's stored status
\* nor the map and signals no child of d.
StreamStopStep ==
  \E t \in RTasks : rtasks'[t].kind \in {"streamStop", "done"} /\ rtasks'[t] # rtasks[t]
                     /\ rtasks[t].kind \in {"idle", "streamStop"}

RestreamStopStep(d) ==
  /\ busR # <<>> /\ Head(busR) = [type |-> "restream:stop", dest |-> d]
  /\ busR' = Tail(busR)

C14_StopIsIdempotent ==
  [][\A d \in Dests :
       /\ rdStatus[d] = "stopped" /\ activeProcesses[d] = 0
       /\ StreamStopStep \/ RestreamStopStep(d)
       => /\ rdStatus'[d] = rdStatus[d] /\ rdError'[d] = rdError[d]
          /\ rprocs'[d] = rprocs[d]
          /\ activeProcesses' = activeProcesses]_vars

C14_Witness ==
  /\ nRestreamStart["A"] = 1 /\ nRestreamStop["A"] = 2 /\ RQuiescent
  /\ rprocs["A"][1] = "gonek"
  /\ rdStatus["A"] = "stopped" /\ activeProcesses["A"] = 0

\* C15: a stop (the stream:stop kill loop or restream:stop) handled while the
\* only start for a destination waits for the credentials or for its write of
\* status active is not dropped: once every handler has finished the
\* destination has no child that runs on unsignalled.
C15_StopInFlightNotDropped ==
  RStarts = 1 /\ RQuiescent =>
    \A d \in Dests : stopInFlight[d] => \A p \in RProcs : rprocs[d][p] # "live"

\* C16: when the playout or restream service exits after a termination
\* signal, no subprocess it spawned is running on unsignalled; stated for
\* channels that got at most one start, so that every child is one the map
\* referred to at some time.
C16_ExitLeavesNoChild ==
  /\ phase["playout"] = "exited" =>
       \A c \in Channels : nStart[c] <= 1 => \A t \in Tasks : procs[c][t] # "live"
  /\ phase["restream"] = "exited" =>
       \A d \in Dests : \A p \in RProcs : rprocs[d][p] # "live"

\* C18: once a service is up and before any control event was published,
\* no channel is stored as running and no destination as active: the map is
\* empty then, and a boot-time sweep would have marked them stopped.
C18_BootSweep ==
  /\ phase["playout"] = "up" /\ Requests = 0 =>
       \A c \in Channels : dbStatus[c] # "running"
  /\ phase["restream"] = "up" /\ RRequests = 0 =>
       \A d \in Dests : rdStatus[d] # "active"

\* C19: a rejected store write does not abort a playout run: when the only
\* run of a channel has ended on a rejected write, the channel's map entry
\* has been released.
C19_WriteFailureReleasesEntry ==
  \A c \in Channels :
    SingleRun(c) /\ tasks[c][1].pc = "failed" => activePlayouts[c] = 0

\* C20: after a failed spawn the channel's only run is over: its map entry is
\* removed and the run is at its closing write of status stopped or past
\* it, so no further spawn is attempted.
C20_SpawnFailureEndsRun ==
  \A c \in Channels :
    SingleRun(c) /\ nSkip[c] = 0 /\ spawnFailed[c] =>
      /\ activePlayouts[c] = 0
      /\ tasks[c][1].pc \in {"cleanupWrite", "done", "failed"}

\* C17: a child of a playout run that was sent the graceful signal by a stop
\* or a skip is eventually not live, whether or not it reacts to the signal:
\* the service's own steps are enough to end it.
C17_SignalledChildEnds ==
  \A c \in Channels, t \in Tasks : (procs[c][t] = "term") ~> (procs[c][t] = "none")

\* C21: the close of a destination's earlier child, one a stop had signalled,
\* leaves alone the map entry that refers to a later child of the same
\* destination.
C21_StaleCloseIgnored ==
  [][\A d \in Dests, p \in RProcs :
       /\ rprocs[d][p] = "term" /\ rprocs'[d][p] = "gonek"
       /\ activeProcesses[d] \notin {0, p}
       => activeProcesses'[d] = activeProcesses[d]]_vars

\* C22: a child is spawned only by the step that completes the spawning
\* invocation's write of current_item_index: right after the spawn the stored
\* index is the index of the item the child plays.
C22_WriteBeforePlay ==
  [][\A c \in Channels, t \in Tasks :
       procs[c][t] # "live" /\ procs'[c][t] = "live" =>
         /\ tasks[c][t].pc = "idxWrite"
         /\ dbIndex'[c] = tasks[c][t].idx
         /\ tasks'[c][t].idx = tasks[c][t].idx]_vars

C22_Witness ==
  \E c \in Channels :
    /\ tasks[c][1].pc = "play" /\ procs[c][1] = "live"
    /\ tasks[c][1].idx = 1 /\ dbIndex[c] = 1

\* C23: once playout:stop was handled for a channel that had an entry and
\* got its only start before, the stopped run spawns no further child: the
\* run is the one of task 1, inside its loop with the entry gone.
C23_StopEndsRun ==
  [][\A c \in Channels :
       /\ nStart[c] = 1 /\ activePlayouts[c] = 0
       /\ tasks[c][1].pc \in {"idxWrite", "play", "refresh"}
       => (procs'[c][1] = "live" => procs[c][1] = "live")]_vars

\* C24: for scheduling an abnormal exit counts as a clean one: whatever item
\* a run is playing, every exit code leads to the same next index, the same
\* decision to go on and the same snapshot refresh as exit code 0.
C24_AbnormalExitSchedulesAlike ==
  \A c \in Channels, t \in Tasks :
    tasks[c][t].pc = "play" /\ tasks[c][t].info # 0 =>
      \A code \in ExitCodes :
        AfterItem(code, tasks[c][t].idx, entries[c][tasks[c][t].info].playlist,
                  tasks[c][t].loop)
        = AfterItem(0, tasks[c][t].idx, entries[c][tasks[c][t].info].playlist,
                    tasks[c][t].loop)

\* The snapshot the loop of task t reads its items from: the playlist of the
\* entry object it fetched at the top of its iteration.
Held(c, t) == entries[c][tasks[c][t].info].playlist

\* C25: the snapshot a run plays from changes only at wraparound: from one
\* await inside the loop to the next the loop holds the same snapshot, unless
\* the step ends the last item of the pass.
C25_SnapshotChangesAtWrapOnly ==
  [][\A c \in Channels, t \in Tasks :
       /\ tasks[c][t].pc \in {"idxWrite", "play"}
       /\ tasks'[c][t].pc \in {"idxWrite", "play"}
       /\ ~(tasks[c][t].pc = "play" /\ tasks'[c][t].pc = "idxWrite"
              /\ Wraps(NextIndex(tasks[c][t].idx), Held(c, t)))
       => entries'[c][tasks'[c][t].info].playlist = Held(c, t)]_vars

\* C26: while the only run of a channel is inside its loop, the loop's index
\* and, once the run has written it, the stored current_item_index are valid
\* indices into the snapshot the run holds.
C26_IndexValid ==
  \A c \in Channels :
    nStart[c] = 1 /\ tasks[c][1].pc \in {"idxWrite", "play", "refresh", "spin"} =>
      /\ tasks[c][1].idx \in 0..(Len(Held(c, 1)) - 1)
      /\ tasks[c][1].spawned => dbIndex[c] \in 0..(Len(Held(c, 1)) - 1)

\* C27: within the run the only start began, the status stopped stored for a
\* destination whose child a stop has signalled, the start handler having
\* finished its writes, is not replaced by any step of the restream service
\* (the API routes, which begin or end a run, are not meant).
C27_TerminalStatusKept ==
  [][RStarts = 1 =>
       \A d \in Dests :
         /\ rdStatus[d] = "stopped"
         /\ \E p \in RProcs : rprocs[d][p] \in {"term", "gonek"}
         /\ d \notin Starting
         /\ nRestreamStart' = nRestreamStart /\ nRestreamStop' = nRestreamStop
         => rdStatus'[d] = "stopped"]_vars

\* C29: no API route writes a destination's stored status: a step in which
\* POST /restream/:id/start or POST /restream/:id/stop is served leaves the
\* status of every destination as it was.
C29_OnlyEngineWritesStatus ==
  [][nRestreamStart' # nRestreamStart \/ nRestreamStop' # nRestreamStop
       => rdStatus' = rdStatus]_vars

C28_StatusStaysRunning ==
  [][\A c \in Channels :
       /\ SingleRun(c) /\ nStop'[c] = 0
       /\ tasks[c][1].pc \in {"idxWrite", "play", "refresh"}
       /\ tasks'[c][1].pc \in {"idxWrite", "play", "refresh"}
       /\ dbStatus[c] = "running"
       => dbStatus'[c] = "running"]_vars

\* C31: a manual restream:start ends as the aggregate stream:start does for
\* the same destination and resolver result; whatever getPlatformRtmpUrl
\* does, once the only request made (one manual start of d) has been handled
\* d is not left stored as pending.
C31_ManualStartNeverLeftPending ==
  \A d \in Dests :
    /\ RRequests = 1 /\ nRestreamStart[d] = 1
    /\ busR = <<>>
    /\ \A t \in RTasks : rtasks[t].pc \in {"idle", "done"}
    => rdStatus[d] # "pending"

\* Nothing of the playout service is in flight: no message waits, and every
\* invocation of startPlayout has returned or awaits the exit of a running child.
PQuiescent ==
  /\ busP = <<>>
  /\ \A c \in Channels, t \in Tasks :
       /\ tasks[c][t].pc \in {"idle", "done", "play"}
       /\ tasks[c][t].pc = "play" => procs[c][t] = "live"

\* Store and registry agree on every destination and on every channel.
Agree ==
  /\ \A d \in Dests : rdStatus[d] = "active" <=> d \in Running
  /\ \A c \in Channels :
       dbStatus[c] = "running" <=>
         activePlayouts[c] # 0 /\ \E t \in Tasks : tasks[c][t].pc = "play"

\* C32: whenever nothing is in flight (no handler, no signalled child still
\* to close, every issued write applied) a destination is stored active iff
\* activeProcesses holds a running child for it and a channel is stored
\* running iff it has an entry with a control loop; and a child is spawned
\* only for an entity already stored as pending or active (running).
C32_StoreAgreesWithRegistry ==
  [][/\ (/\ RQuiescent' /\ PQuiescent'
         /\ \A d \in Dests, p \in RProcs : rprocs'[d][p] # "term")
        => Agree'
     /\ \A d \in Dests, p \in RProcs :
          rprocs[d][p] = "none" /\ rprocs'[d][p] = "live"
            => rdStatus[d] \in {"pending", "active"}
     /\ \A c \in Channels, t \in Tasks :
          procs[c][t] # "live" /\ procs'[c][t] = "live" => dbStatus[c] = "running"]_vars

\* A step of the restream service that handles restream:start or
\* restream:stop of destination d, or goes on with d's manual start.
HandlesDest(d) ==
  \/ /\ busR # <<>> /\ busR' = Tail(busR)
     /\ Head(busR).type \in {"restream:start", "restream:stop"} /\ Head(busR).dest = d
  \/ \E t \in RTasks : /\ rtasks[t].kind = "restreamStart" /\ rtasks[t].dest = d
                       /\ rtasks'[t] # rtasks[t]

\* C33: commands for different entities do not interfere.  Handling a
\* command of destination d leaves every other destination's entry, children
\* and stored fields as they were, and a message waiting for another channel
\* at the head of the playout service's queue can always be handled, whatever
\* the runs of this channel are doing.
C33_OtherEntitiesUnaffected ==
  /\ [](busP # <<>> /\ Head(busP).ch \notin Channels /\ Serving("playout")
          => ENABLED handleOther)
  /\ [][\A d \in Dests :
          HandlesDest(d) =>
            \A e \in Dests \ {d} :
              /\ activeProcesses'[e] = activeProcesses[e]
              /\ rprocs'[e] = rprocs[e]
              /\ pendingClose'[e] = pendingClose[e]
              /\ rdStatus'[e] = rdStatus[e] /\ rdError'[e] = rdError[e]]_vars

\* C34: a looping run always reaches a suspension point.  When the refresh
\* at wraparound returns no item the control loop ends or waits, it does not
\* go round without yielding; and a playout:stop waiting at the head of the
\* queue can be handled.
C34_EmptyRefreshYields ==
  /\ [][\A c \in Channels, t \in Tasks :
          /\ tasks[c][t].pc = "refresh" /\ tasks'[c][t].pc # "refresh"
          /\ IsEmpty(getPlaylist(c))
          => tasks'[c][t].pc # "spin"]_vars
  /\ [](\A c \in Channels :
          /\ busP # <<>> /\ Head(busP).type = "stop" /\ Head(busP).ch = c
          /\ Serving("playout")
          => ENABLED stopPlayout(c))

\* C35: every effect of a linear-channel request is on a channel of the
\* requesting user.  No message waiting for the playout service was published
\* by a user for a channel owned by another, and (the route adding an item
\* accepts only the requester's own VODs) no channel's playlist holds a VOD
\* of a user who does not own the channel.
C35_RequestsTouchOwnChannelOnly ==
  /\ \A k \in DOMAIN busP :
       "by" \in DOMAIN busP[k] => busP[k].by = Owner(busP[k].ch)
  /\ \A c \in Channels :
       \A k \in DOMAIN dbPlaylist[c] : VodOwner(dbPlaylist[c][k]) = Owner(c)

\* C36: when the refresh of the playlist at wraparound fails, the run keeps
\* the snapshot it had and goes on with index 0 of it: that is the index it
\* writes and plays next, no item being skipped.
C36_FailedRefreshRestartsAtZero ==
  [][\A c \in Channels, t \in Tasks :
       RefreshFail(c, t) /\ activePlayouts[c] = tasks[c][t].info =>
         /\ entries'[c][tasks[c][t].info].playlist = Held(c, t)
         /\ tasks'[c][t].pc = "idxWrite"
         /\ tasks'[c][t].idx = 0]_vars

\* The files a finished transcode has produced.
AllFiles == {"thumbnail", "master"} \cup {Profiles[i] : i \in DOMAIN Profiles}

\* C37: every handled transcode job ends with the VOD stored as ready or as
\* failed, never left processing; ready is stored only once the thumbnail,
\* the four renditions and the master playlist exist; a job that ends failed
\* has published no vod:ready.
C37_JobEndsReadyOrFailed ==
  \A v \in Vods :
    /\ vod[v].pc \in {"done", "rejected"} => vod[v].status \in {"ready", "failed"}
    /\ vod[v].status = "ready" => vod[v].made = AllFiles
    /\ vod[v].ready => vod[v].status = "ready"

\* C38: the viewer counter is never observed negative and loses no join.
\* Every count a call returned is >= 0; and once every call has finished, in
\* a run where no leave came before its join, the counter is max(0, joins -
\* leaves).
C38_CounterNeverNegative ==
  /\ \A r \in viewers.returned : r >= 0
  /\ viewers.setting = 0 /\ ~viewers.stray =>
       /\ viewers.joins >= viewers.leaves
       /\ viewers.count = viewers.joins - viewers.leaves

====
